---- MODULE Spec2Model ----
(***************************************************************************)
(* Model of app/lib/MicrosoftDefender.py: the machine-availability gate,   *)
(* the live-response job lifecycle (submit, read, poll, timeout, cancel)   *)
(* and the containment routines, run by one single-threaded process        *)
(* against the vendor API.  Every vendor response is an input of the step  *)
(* that receives it.                                                       *)
(***************************************************************************)
EXTENDS Integers, Sequences, FiniteSets, TLC

\* ------------------------------------------------------------------ bounds
MaxJobTimeout == 2
MaxMachineTimeout == 2
MaxSleep == 3
MaxWaitTimeout == 5
MaxListLen == 2
MaxListed == 1
MaxCount == 2

\* The machines of a call, in list order, and the places of a machine's
\* evidence list.
Machines == {1, 2}
EvIdx == {1, 2}
LastMachine == Cardinality(Machines)
Min(S) == CHOOSE x \in S : \A y \in S : x <= y

\* ------------------------------------------------------------------- state
VARIABLES
  JOB_TIMEOUT, SLEEP, MACHINE_TIMEOUT,   \* config.MACHINE_ACTION
  pc,                 \* the process's position
  evidences,          \* machine -> length of machine.evidences
  rlr,                \* run_live_response: "new", "running", "returned"
  mi, ei,             \* current machine and evidence of run_live_response
  timeout_counter,    \* machine.timeout_counter of the current machine
  live_response,      \* evidence.live_response, per evidence of that machine
  download_url,       \* evidence.download_url, likewise
  busy,               \* vendor: non-terminal actions per machine
  vstatus,            \* vendor: status of the job being started or polled
  polls,              \* polls made by the current wait_live_response call
  cancels,            \* cancel calls sent for the job id each evidence of
                      \* the current machine holds (counted up to MaxCount)
  timeout_logged,     \* machines whose unavailability run_live_response logged
  submitted,          \* evidences of the current machine a runliveresponse
                      \* request has been sent for
  ckind, targets, cmachine, timeout_count, is_job_pending,  \* containment
  cm_submits,         \* submissions sent for cmachine by the current routine
  cm_timeout_logged,  \* the routine logged cmachine as unavailable
  cm_gate_true,       \* a check of cmachine returned True
  visits,             \* machine -> times the current routine's for loop
                      \* took it (counted up to MaxCount)
  ACTIVE, VERDICTS,   \* config.MACHINE_ACTION.<KIND>.ACTIVE and .VERDICTS
  COMMENT,            \* config.MACHINE_ACTION.<KIND>.COMMENT
  request_data,       \* the request_data of the routine's latest POST for
                      \* cmachine, if it made one
  plan,               \* run_automated_machine_actions: 0 not called, 1..4
                      \* the if statement in hand, 5 returned
  sample_verdict,     \* sample_data["sample_verdict"] of that call
  emachines,          \* evidence.machines of that call
  invocations,        \* kind -> times that call invoked the kind's routine
  cm_failures,        \* kinds a submission failed or a machine timed out
                      \* for during that call
  g_listing, g_kind, g_result,           \* the gate's input and result
  g_prev_listing, g_prev_kind, g_prev_result,
  kept,               \* the machines whose objects the state keeps while
                      \* they are not in hand
  roster,             \* machine -> the machine object as the for loop
                      \* will find it, or as the loop left it
  rpc, rcount, rpending,  \* two orchestrator processes in the loop of a
                      \* containment routine on one machine: position,
                      \* timeout_count and is_job_pending of each
  rseen,              \* the process's check of the machine returned True
  rsent,              \* the vendor's answer to the process's submission
  last_call           \* the vendor's answer to the submission, read, poll
                      \* or cancel request the process's latest step made,
                      \* if it made one

cfgVars == <<JOB_TIMEOUT, SLEEP, MACHINE_TIMEOUT>>
rlrVars == <<evidences, rlr, mi, ei, timeout_counter, live_response,
             download_url, polls, cancels, timeout_logged, submitted>>
policyVars == <<ACTIVE, VERDICTS, COMMENT>>
planVars == <<plan, sample_verdict, emachines, invocations, cm_failures>>
cmVars == <<ckind, targets, cmachine, timeout_count, is_job_pending,
            cm_submits, cm_timeout_logged, cm_gate_true, visits,
            request_data, policyVars, planVars>>
vendorVars == <<busy, vstatus>>
gateVars == <<g_listing, g_kind, g_result, g_prev_listing, g_prev_kind,
              g_prev_result>>
obsVars == <<last_call>>
raceVars == <<rpc, rcount, rpending, rseen, rsent>>
frameVars == <<kept, roster>>
vars == <<cfgVars, pc, rlrVars, cmVars, vendorVars, gateVars, obsVars,
          raceVars, frameVars>>

\* The orchestrator processes of the two-process runs, and the machine
\* they both work on.
Procs == {1, 2}
RaceMachine == Min(Machines)

\* The latest step made no submission, read or poll.
NoCall == [call |-> "none", kind |-> "none", e |-> 0]

\* The containment action kinds, by the path segment of their request.
Kinds ==
  {"isolate", "runAntiVirusScan", "collectInvestigationPackage",
   "StopAndQuarantineFile"}

\* The verdicts a sample can carry that a policy can name.
Verdicts == {"malicious", "suspicious"}

\* --------------------------------------------- MACHINE_ACTION_STATUS (conf)
PENDING == "Pending"
IN_PROGRESS == "InProgress"
SUCCEEDED == "Succeeded"
FAILED == "Failed"
TIMEOUT == "TimeOut"
CANCELLED == "Cancelled"
NOT_AVAILABLE == {PENDING, IN_PROGRESS}
FAIL == {TIMEOUT, FAILED, CANCELLED}
Terminal == {SUCCEEDED} \cup FAIL
Statuses == NOT_AVAILABLE \cup Terminal

\* ------------------------------------------------------- vendor responses
\* A machine action record of a listing: with its status field, or without.
ActionRecords ==
  {[type |-> "LiveResponse", status |-> s] : s \in Statuses}
    \cup {[type |-> "LiveResponse"]}

HasStatus(action) == "status" \in DOMAIN action

SeqsUpTo(S, n) == UNION {[1..k -> S] : k \in 0..n}

\* How a JSON call can end: requests raised, the body did not parse, the
\* body carries "error", or the body is a JSON object without "error"; that
\* one may lack a field the caller reads.  wf: the vendor sends every field.
ListingFailures(wf) ==
  {"exception", "unparsable", "error"} \cup (IF wf THEN {} ELSE {"novalue"})
SubmitKinds(wf) ==
  {"exception", "unparsable", "error", "ok"} \cup (IF wf THEN {} ELSE {"noid"})
ContainmentSubmitKinds == {"exception", "unparsable", "error", "ok"}
ActionKinds == {"exception", "unparsable", "error", "record"}
ReadShapes(wf) ==
  {"getfile", "nogetfile"}
    \cup (IF wf THEN {} ELSE {"nocommands", "badcommand"})
PollShapes(wf) ==
  {"status"} \cup (IF wf THEN {} ELSE {"noerrors", "nostatus"})
CancelKinds == {"exception", "error", "ok"}
ResultKinds(wf) ==
  {"exception", "error", "value"} \cup (IF wf THEN {} ELSE {"novalue"})

\* get_machine_actions: the listed actions, or None.
get_machine_actions_emptyonerror(resp) ==
  IF resp.kind = "value"
    THEN [none |-> FALSE, value |-> resp.value]
    ELSE [none |-> FALSE, value |-> <<>>]

get_machine_actions(resp) ==
  IF resp.kind = "value"
    THEN [none |-> FALSE, value |-> resp.value]
    ELSE [none |-> TRUE, value |-> <<>>]

\* The for loop of is_machine_available from action i on: action["status"]
\* raises KeyError on a record without the field.
ScanActions_firstonly(actions, i) ==
  IF i > Len(actions) THEN "True"
  ELSE IF ~HasStatus(actions[i]) THEN "KeyError"
  ELSE IF actions[i].status \in NOT_AVAILABLE THEN "False"
  ELSE "True"

RECURSIVE ScanActions_pendingonly(_, _)
ScanActions_pendingonly(actions, i) ==
  IF i > Len(actions) THEN "True"
  ELSE IF ~HasStatus(actions[i]) THEN "KeyError"
  ELSE IF actions[i].status = PENDING THEN "False"
  ELSE ScanActions_pendingonly(actions, i + 1)

RECURSIVE ScanActions(_, _)
ScanActions(actions, i) ==
  IF i > Len(actions) THEN "True"
  ELSE IF ~HasStatus(actions[i]) THEN "KeyError"
  ELSE IF actions[i].status \in NOT_AVAILABLE THEN "False"
  ELSE ScanActions(actions, i + 1)

\* is_machine_available: "True", "False", or the KeyError it lets escape.
is_machine_available_remembers(resp) ==
  LET machine_actions == get_machine_actions(resp)
  IN  IF machine_actions.none
        THEN (IF g_result = "False" THEN "True" ELSE "False")
        ELSE ScanActions(machine_actions.value, 1)

is_machine_available_failopen(resp) ==
  LET machine_actions == get_machine_actions(resp)
  IN  IF machine_actions.none THEN "True"
      ELSE ScanActions(machine_actions.value, 1)

is_machine_available(resp) ==
  LET machine_actions == get_machine_actions(resp)
  IN  IF machine_actions.none THEN "False"
      ELSE ScanActions(machine_actions.value, 1)

\* get_machine_action: the action record, or None.
get_machine_action(resp) ==
  IF resp.kind = "record"
    THEN [none |-> FALSE, value |-> resp.value]
    ELSE [none |-> TRUE, value |-> [type |-> "LiveResponse"]]

\* cancel_machine_action: True unless the call failed.
cancel_machine_action(kind) == kind = "ok"

\* get_live_response_result: the download link, or None.
get_live_response_result(kind) == IF kind = "value" THEN "url" ELSE "None"

Bump(n) == IF n < MaxCount THEN n + 1 ELSE MaxCount

\* LiveResponse(): a job not started yet.
NewLiveResponse ==
  [id |-> 0, status |-> "None", timeout_counter |-> 0,
   has_error |-> FALSE, is_finished |-> FALSE]

\* LiveResponse.start(index, errors, status, start_time, id)
start(lr, status, id) == [lr EXCEPT !.status = status, !.id = id]

\* Machine.has_pending_actions()
has_pending_actions(m) ==
  \E e \in 1..evidences[m] :
    ~live_response[e].has_error /\ ~live_response[e].is_finished

\* timeout / SLEEP > counter, in Python 3's true division.
BudgetLeft_inclusive(timeout, counter) == timeout >= counter * SLEEP
BudgetLeft_onemore(timeout, counter) == timeout + SLEEP > counter * SLEEP
BudgetLeft(timeout, counter) == timeout > counter * SLEEP

\* ------------------------------------------------------ vendor as listed
\* The listings the vendor can give for machine m, up to MaxListed records:
\* an action is listed as busy (or, malformed, with its status missing)
\* while it is non-terminal.
Listings(m, wf) ==
  {l \in SeqsUpTo(ActionRecords, MaxListed) :
     LET listedBusy == {i \in 1..Len(l) :
                          HasStatus(l[i]) /\ l[i].status \in NOT_AVAILABLE}
         unreadable == {i \in 1..Len(l) : ~HasStatus(l[i])}
     IN  /\ wf => unreadable = {}
         /\ Cardinality(listedBusy) <= busy[m]
         /\ busy[m] > 0 => listedBusy \cup unreadable # {}}

ListingResponses(m, wf) ==
  {[kind |-> k, value |-> <<>>] : k \in ListingFailures(wf)}
    \cup {[kind |-> "value", value |-> l] : l \in Listings(m, wf)}

\* The id the vendor gives a new action differs from every id given
\* before; an evidence only ever holds ids of its own jobs, so the model
\* names a job by its evidence and tells an evidence's successive ids apart.
FreshId(lr) == IF lr.id = 1 THEN 2 ELSE 1

\* What a submission leaves at the vendor: a response without error means
\* the action exists; an error response means it does not; a transport or
\* parse failure leaves either.
Created(kind) ==
  CASE kind \in {"ok", "noid"} -> {TRUE}
    [] kind = "error" -> {FALSE}
    [] OTHER -> BOOLEAN

\* ------------------------------------------------------------------- Init
ConfigInit ==
  /\ JOB_TIMEOUT = MaxJobTimeout
  /\ SLEEP = 1
  /\ MACHINE_TIMEOUT = MaxMachineTimeout

\* Machine objects as their constructor leaves them.
NoJobs == [e \in EvIdx |-> NewLiveResponse]
NoUrls == [e \in EvIdx |-> "None"]
NoCounts == [e \in EvIdx |-> 0]

\* The fields of a machine object the state keeps: the machine's
\* availability counter and the jobs of its evidences.
FreshMachine == [timeout_counter |-> 0, live_response |-> NoJobs]
FreshRoster == [m \in Machines |-> FreshMachine]

\* The object the for loop of line 204 binds to machine.
MachineInHand_sharedbudget(m) ==
  [roster[m] EXCEPT !.timeout_counter = timeout_counter]
MachineInHand(m) == roster[m]

\* The list keeps the object the loop has left, as the loop left it.
PutBack(m) ==
  IF m \in kept
    THEN [roster EXCEPT ![m] = [timeout_counter |-> timeout_counter,
                                live_response |-> live_response]]
    ELSE roster

\* Only the machine in hand is kept.
FrameIdle ==
  /\ kept = {}
  /\ roster = FreshRoster

MachinesInit ==
  /\ evidences = [m \in Machines |-> 1]
  /\ rlr = "new"
  /\ mi = 1
  /\ ei = 1
  /\ timeout_counter = 0
  /\ live_response = NoJobs
  /\ download_url = NoUrls
  /\ polls = 0
  /\ cancels = NoCounts
  /\ timeout_logged = {}
  /\ submitted = {}

NoVisits == [m \in Machines |-> 0]
NoInvocations == [k \in Kinds |-> 0]

\* run_automated_machine_actions has not been called.
PlanIdle ==
  /\ plan = 0
  /\ sample_verdict = "none"
  /\ emachines = {}
  /\ invocations = NoInvocations
  /\ cm_failures = {}

\* The comment texts a configuration can hold.
Comments == {"comment A", "comment B"}

\* The policy of the runs that call the routines directly.
PolicyInit ==
  /\ ACTIVE = [k \in Kinds |-> TRUE]
  /\ VERDICTS = [k \in Kinds |-> Verdicts]
  /\ COMMENT = [k \in Kinds |-> "comment A"]

\* No POST made: request_data is not bound.
NoRequest == [Comment |-> "none"]

\* No containment routine is running.
RoutineIdle ==
  /\ ckind = "none"
  /\ targets = {}
  /\ cmachine = 0
  /\ timeout_count = 0
  /\ is_job_pending = FALSE
  /\ cm_submits = 0
  /\ cm_timeout_logged = FALSE
  /\ cm_gate_true = FALSE
  /\ visits = NoVisits
  /\ request_data = NoRequest

ContainmentInit == RoutineIdle /\ PolicyInit /\ PlanIdle

VendorInit ==
  /\ busy = [m \in Machines |-> 0]
  /\ vstatus = "None"

\* No second orchestrator process is at work.
RaceIdle ==
  /\ rpc = [p \in Procs |-> "off"]
  /\ rcount = [p \in Procs |-> 0]
  /\ rpending = [p \in Procs |-> FALSE]
  /\ rseen = [p \in Procs |-> FALSE]
  /\ rsent = [p \in Procs |-> "none"]

GateIdle ==
  /\ g_listing = <<>>
  /\ g_kind = "none"
  /\ g_result = "none"
  /\ g_prev_listing = <<>>
  /\ g_prev_kind = "none"
  /\ g_prev_result = "none"

Init ==
  /\ ConfigInit /\ MachinesInit /\ ContainmentInit /\ VendorInit /\ GateIdle /\ RaceIdle /\ FrameIdle
  /\ pc = "idle"
  /\ last_call = NoCall

\* ------------------------------------------------------ run_live_response
\* The evidence loop moves on: the next evidence, or back to the while.
NextEvidence_unchecked ==
  /\ vstatus' = "None"
  /\ polls' = 0
  /\ IF ei < evidences[mi]
       THEN ei' = ei + 1 /\ pc' = "rlr_submit"
       ELSE ei' = 1 /\ pc' = "rlr_while"

NextEvidence ==
  /\ vstatus' = "None"
  /\ polls' = 0
  /\ IF ei < evidences[mi]
       THEN ei' = ei + 1 /\ pc' = "rlr_inner"
       ELSE ei' = 1 /\ pc' = "rlr_while"

SetLR(f) == live_response' = [live_response EXCEPT ![ei] = f]
MarkError_skip == UNCHANGED live_response
MarkError == SetLR([live_response[ei] EXCEPT !.has_error = TRUE])

\* The caller hands run_live_response a list of machines built from the
\* alerts: fresh machine objects, each with its evidences.
RLR_Call ==
  /\ pc = "idle"
  /\ evidences' \in [Machines -> EvIdx]
  /\ rlr' = "running" /\ mi' = 1 /\ ei' = 1 /\ pc' = "rlr_while"
  /\ timeout_counter' = 0
  /\ live_response' = NoJobs
  /\ download_url' = NoUrls
  /\ polls' = 0
  /\ cancels' = NoCounts
  /\ timeout_logged' = {}
  /\ submitted' = {}
  /\ roster' = FreshRoster
  /\ last_call' = NoCall
  /\ UNCHANGED <<cfgVars, kept, raceVars, cmVars, vendorVars, gateVars>>

\* The while test of line 210.
MachineLoopTest_lenient(m) ==
  /\ BudgetLeft(MACHINE_TIMEOUT + SLEEP, timeout_counter)
  /\ has_pending_actions(m)

MachineLoopTest(m) ==
  BudgetLeft(MACHINE_TIMEOUT, timeout_counter) /\ has_pending_actions(m)

\* Line 210; when the test fails, the log of line 305 and the next machine
\* of the for loop of line 204, or the return of line 309.  The loop never
\* comes back to a machine: the state holds the machine object in hand, and
\* the next one is as the caller built it.
RLR_While ==
  /\ pc = "rlr_while"
  /\ IF MachineLoopTest(mi)
       THEN /\ pc' = "rlr_outer"
            /\ UNCHANGED <<timeout_logged, mi, rlr, cancels, timeout_counter,
                           live_response, download_url, submitted, roster>>
       ELSE /\ timeout_logged' = IF has_pending_actions(mi)
                                   THEN timeout_logged \cup {mi}
                                   ELSE timeout_logged
            /\ IF mi < LastMachine
                 THEN /\ mi' = mi + 1 /\ pc' = "rlr_while" /\ rlr' = rlr
                      /\ timeout_counter' =
                           MachineInHand(mi + 1).timeout_counter
                      /\ live_response' = MachineInHand(mi + 1).live_response
                      /\ roster' = PutBack(mi)
                      /\ download_url' = NoUrls
                      /\ cancels' = NoCounts
                      /\ submitted' = {}
                 ELSE /\ mi' = mi /\ pc' = "idle" /\ rlr' = "returned"
                      /\ UNCHANGED <<timeout_counter, live_response,
                                     download_url, cancels, submitted,
                                     roster>>
  /\ last_call' = NoCall
  /\ UNCHANGED <<cfgVars, kept, raceVars, evidences, ei, polls, cmVars, vendorVars, gateVars>>

\* Line 214, and lines 297-302 when the machine is not available.
RLR_OuterGate(wf) ==
  /\ pc = "rlr_outer"
  /\ \E r \in ListingResponses(mi, wf) :
       LET available == is_machine_available(r)
       IN  CASE available = "True" ->
                  /\ ei' = 1 /\ pc' = "rlr_inner"
                  /\ UNCHANGED timeout_counter
             [] available = "False" ->
                  /\ timeout_counter' = timeout_counter + 1
                  /\ pc' = "rlr_while" /\ UNCHANGED ei
             [] OTHER ->
                  /\ pc' = "raised" /\ UNCHANGED <<ei, timeout_counter>>
  /\ last_call' = NoCall
  /\ UNCHANGED submitted
  /\ UNCHANGED <<cfgVars, frameVars, raceVars, evidences, rlr, mi, live_response, download_url,
                 polls, cancels, timeout_logged, cmVars, vendorVars, gateVars>>

\* Line 222, and lines 294-296 when the machine is not available.
RLR_InnerGate(wf) ==
  /\ pc = "rlr_inner"
  /\ \E r \in ListingResponses(mi, wf) :
       LET available == is_machine_available(r)
       IN  CASE available = "True" ->
                  pc' = "rlr_submit" /\ UNCHANGED <<ei, vstatus, polls>>
             [] available = "False" -> NextEvidence
             [] OTHER -> pc' = "raised" /\ UNCHANGED <<ei, vstatus, polls>>
  /\ last_call' = NoCall
  /\ UNCHANGED submitted
  /\ UNCHANGED <<cfgVars, frameVars, raceVars, evidences, rlr, mi, timeout_counter, live_response,
                 download_url, cancels, timeout_logged, cmVars, busy, gateVars>>

\* Lines 225-249 and 290-293: the POST of runliveresponse.  A response
\* without "id" raises KeyError at line 260, caught at line 286.
RLR_Submit(wf) ==
  /\ pc = "rlr_submit"
  /\ \E kind \in SubmitKinds(wf), created \in BOOLEAN :
       /\ created \in Created(kind)
       /\ busy' = [busy EXCEPT ![mi] = IF created THEN @ + 1 ELSE @]
       /\ last_call' = [call |-> "submit", kind |-> kind, e |-> ei]
       /\ submitted' = submitted \cup {ei}
       /\ IF kind = "ok"
            THEN /\ pc' = "rlr_read" /\ vstatus' = PENDING
                 /\ UNCHANGED <<ei, live_response, polls>>
            ELSE MarkError /\ NextEvidence
  /\ UNCHANGED <<cfgVars, frameVars, raceVars, evidences, rlr, mi, timeout_counter, download_url,
                 cancels, timeout_logged, cmVars, gateVars>>

\* Lines 251-275 and 286-289: the second read of the submitted action.
\* Without a GetFile command start() is not called; a record without
\* "commands", or a command without a field, raises KeyError.
RLR_Read(wf) ==
  /\ pc = "rlr_read"
  /\ \E kind \in ActionKinds, shape \in ReadShapes(wf) :
       LET json_response ==
             get_machine_action([kind |-> kind,
                                 value |-> [type |-> "LiveResponse"]])
       IN  /\ kind # "record" => shape = "getfile"
           /\ last_call' = [call |-> "read", kind |-> kind, e |-> ei]
           /\ IF json_response.none
                THEN UNCHANGED <<live_response, cancels>> /\ NextEvidence
                ELSE CASE shape = "getfile" ->
                            /\ SetLR(start(live_response[ei], "Created",
                                           FreshId(live_response[ei])))
                            /\ cancels' = [cancels EXCEPT ![ei] = 0]
                            /\ pc' = "wlr_while"
                            /\ UNCHANGED <<ei, vstatus, polls>>
                       [] shape = "nogetfile" ->
                            /\ pc' = "wlr_while"
                            /\ UNCHANGED <<ei, vstatus, polls, live_response,
                                           cancels>>
                       [] OTHER ->
                            MarkError /\ NextEvidence /\ UNCHANGED cancels
  /\ UNCHANGED submitted
  /\ UNCHANGED <<cfgVars, frameVars, raceVars, evidences, rlr, mi, timeout_counter, download_url,
                 timeout_logged, cmVars, busy, gateVars>>

\* ----------------------------------------------------- wait_live_response
\* The while test of lines 323-325.
WaitLoopTest(lr) ==
  /\ BudgetLeft(JOB_TIMEOUT, lr.timeout_counter)
  /\ ~lr.has_error
  /\ ~lr.is_finished

\* What a read of the polled action can return: nothing for a job whose id
\* was never set; otherwise nothing, the record with the vendor's status
\* (with or without a first command error), or a record without status.
PollResponses(lr, wf) ==
  {[kind |-> k, shape |-> "status"] : k \in ActionKinds \ {"record"}}
    \cup (IF lr.id = 0 THEN {}
          ELSE {[kind |-> "record", shape |-> sh] : sh \in PollShapes(wf)})

\* The branches of lines 335-355 on a record with its fields, or on None.
PollUpdate_countsnone(lr, machine_action) ==
  IF machine_action.none
    THEN [lr EXCEPT !.timeout_counter = @ + 1]
  ELSE IF machine_action.value.status = SUCCEEDED
    THEN [lr EXCEPT !.status = SUCCEEDED, !.is_finished = TRUE]
  ELSE IF machine_action.value.status \in FAIL
    THEN [lr EXCEPT !.status = machine_action.value.status,
                    !.has_error = TRUE]
  ELSE [lr EXCEPT !.timeout_counter = @ + 1]

PollUpdate(lr, machine_action) ==
  IF machine_action.none
    THEN [lr EXCEPT !.has_error = TRUE]
  ELSE IF machine_action.value.status = SUCCEEDED
    THEN [lr EXCEPT !.status = SUCCEEDED, !.is_finished = TRUE]
  ELSE IF machine_action.value.status \in FAIL
    THEN [lr EXCEPT !.status = machine_action.value.status,
                    !.has_error = TRUE]
  ELSE [lr EXCEPT !.timeout_counter = @ + 1]

\* One pass of the loop of lines 323-355: sleep, read, branch.  A KeyError
\* (no status) or IndexError (a failed action without a command error)
\* leaves wait_live_response and is caught at line 286.
WLR_Poll(wf) ==
  /\ pc = "wlr_while"
  /\ WaitLoopTest(live_response[ei])
  /\ \E r \in PollResponses(live_response[ei], wf) :
       LET raises ==
             /\ r.kind = "record"
             /\ \/ r.shape = "nostatus"
                \/ r.shape = "noerrors" /\ vstatus \in FAIL
           machine_action ==
             get_machine_action(
               [kind |-> r.kind,
                value |-> [type |-> "LiveResponse", status |-> vstatus]])
       IN  /\ last_call' = [call |-> "poll", kind |-> r.kind, e |-> ei]
           /\ IF raises
                THEN MarkError /\ NextEvidence
                ELSE /\ SetLR(PollUpdate(live_response[ei], machine_action))
                     /\ polls' = polls + 1
                     /\ UNCHANGED <<pc, ei, vstatus>>
  /\ UNCHANGED submitted
  /\ UNCHANGED <<cfgVars, frameVars, raceVars, evidences, rlr, mi, timeout_counter, download_url,
                 cancels, timeout_logged, cmVars, busy, gateVars>>

\* The timeout test of line 358.
JobTimedOut(lr) == ~BudgetLeft(JOB_TIMEOUT, lr.timeout_counter)

\* Line 366: the call is an expression statement; what it returns is
\* dropped and the job is as lines 364-365 left it.
AfterCancel_undoneiffailed(lr, cancelled) ==
  IF cancelled THEN lr ELSE [lr EXCEPT !.status = IN_PROGRESS]
AfterCancel(lr, cancelled) == lr

\* Lines 357-370 once the loop has ended, then line 280 of the caller.
WLR_Exit ==
  /\ pc = "wlr_while"
  /\ ~WaitLoopTest(live_response[ei])
  /\ IF JobTimedOut(live_response[ei])
       THEN /\ \E kind \in CancelKinds :
                 /\ SetLR(AfterCancel([live_response[ei] EXCEPT
                                         !.has_error = TRUE,
                                         !.status = TIMEOUT],
                                      cancel_machine_action(kind)))
                 /\ last_call' = [call |-> "cancel", kind |-> kind,
                                  e |-> ei]
            /\ cancels' = [cancels EXCEPT ![ei] = Bump(@)]
       ELSE UNCHANGED <<live_response, cancels>> /\ last_call' = NoCall
  /\ IF live_response[ei].is_finished
       THEN pc' = "rlr_result" /\ UNCHANGED <<ei, vstatus, polls>>
       ELSE NextEvidence
  /\ UNCHANGED submitted
  /\ UNCHANGED <<cfgVars, frameVars, raceVars, evidences, rlr, mi, timeout_counter, download_url,
                 timeout_logged, cmVars, busy, gateVars>>

\* Lines 280-285: the download link of a finished job.
RLR_Result(wf) ==
  /\ pc = "rlr_result"
  /\ \E kind \in ResultKinds(wf) :
       LET evidence_result == get_live_response_result(kind)
       IN  download_url' =
             IF evidence_result # "None"
               THEN [download_url EXCEPT ![ei] = evidence_result]
               ELSE download_url
  /\ NextEvidence
  /\ last_call' = NoCall
  /\ UNCHANGED submitted
  /\ UNCHANGED <<cfgVars, frameVars, raceVars, evidences, rlr, mi, timeout_counter, live_response,
                 cancels, timeout_logged, cmVars, busy, gateVars>>

\* ------------------------------------------------------------ the vendor
\* The statuses in which the vendor can end an action.
VendorOutcomes == Terminal

\* The job being started or polled moves on at the vendor.
VendorJobProgress ==
  /\ vstatus \in NOT_AVAILABLE
  /\ \E s \in {IN_PROGRESS} \cup VendorOutcomes :
       /\ s # vstatus
       /\ vstatus' = s
       /\ busy' = [busy EXCEPT ![mi] = IF s \in Terminal THEN @ - 1 ELSE @]
  /\ UNCHANGED obsVars
  /\ UNCHANGED <<cfgVars, frameVars, raceVars, pc, rlrVars, cmVars, gateVars>>

\* An action the program no longer follows (timed out, cancelled, lost
\* with its response, or a containment action) becomes terminal.
VendorActionEnds ==
  /\ \E m \in Machines :
       /\ busy[m] > (IF m = mi /\ vstatus \in NOT_AVAILABLE THEN 1 ELSE 0)
       /\ busy' = [busy EXCEPT ![m] = @ - 1]
  /\ UNCHANGED obsVars
  /\ UNCHANGED <<cfgVars, frameVars, raceVars, pc, rlrVars, cmVars, vstatus, gateVars>>

\* ------------------------------------------------- containment routines
\* isolate_machine, run_antivirus_scan, collect_investigation_package and
\* stop_and_quarantine_file run the same loop on their own endpoint.
\* One of the routines is called for an evidence found on some machines.
CM_Call ==
  /\ pc = "idle"
  /\ ckind' \in Kinds
  /\ targets' \in (SUBSET Machines) \ {{}}
  /\ cmachine' = 0 /\ timeout_count' = 0 /\ is_job_pending' = FALSE
  /\ cm_submits' = 0 /\ cm_timeout_logged' = FALSE /\ cm_gate_true' = FALSE
  /\ request_data' = NoRequest
  /\ visits' = NoVisits
  /\ pc' = "cm_for"
  /\ evidences' = [m \in Machines |-> 1]
  /\ rlr' = "new" /\ mi' = 1 /\ ei' = 1
  /\ timeout_counter' = 0
  /\ live_response' = NoJobs /\ download_url' = NoUrls
  /\ polls' = 0 /\ cancels' = NoCounts /\ timeout_logged' = {}
  /\ submitted' = {}
  /\ roster' = FreshRoster
  /\ last_call' = NoCall
  /\ UNCHANGED <<cfgVars, kept, raceVars, vendorVars, gateVars, policyVars,
                 planVars>>

\* Lines 670-681: the next machine of evidence.machines, or the return.
CM_For ==
  /\ pc = "cm_for"
  /\ IF targets = {}
       THEN /\ pc' = IF plan = 0 THEN "idle" ELSE "rama_if"
            /\ plan' = IF plan = 0 THEN 0 ELSE plan + 1
            /\ ckind' = "none" /\ cmachine' = 0
            /\ timeout_count' = 0 /\ is_job_pending' = FALSE
            /\ visits' = NoVisits
            /\ UNCHANGED targets
       ELSE /\ cmachine' = Min(targets)
            /\ targets' = targets \ {Min(targets)}
            /\ timeout_count' = 0 /\ is_job_pending' = TRUE
            /\ visits' = [visits EXCEPT ![Min(targets)] = Bump(@)]
            /\ pc' = "cm_while" /\ UNCHANGED <<ckind, plan>>
  /\ cm_submits' = 0 /\ cm_timeout_logged' = FALSE /\ cm_gate_true' = FALSE
  /\ request_data' = NoRequest
  /\ last_call' = NoCall
  /\ UNCHANGED <<cfgVars, frameVars, raceVars, rlrVars, vendorVars, gateVars, policyVars,
                 sample_verdict, emachines, invocations, cm_failures>>

\* The while test of line 684.
ContainmentLoopTest ==
  BudgetLeft(MACHINE_TIMEOUT, timeout_count) /\ is_job_pending

\* Lines 684-687 and 714-719: the gate inside the loop.
CM_Gate(wf) ==
  /\ pc = "cm_while"
  /\ ContainmentLoopTest
  /\ \E r \in ListingResponses(cmachine, wf) :
       LET available == is_machine_available(r)
       IN  CASE available = "True" ->
                  /\ pc' = "cm_submit" /\ cm_gate_true' = TRUE
                  /\ UNCHANGED timeout_count
             [] available = "False" ->
                  /\ timeout_count' = timeout_count + 1
                  /\ UNCHANGED <<pc, cm_gate_true>>
             [] OTHER ->
                  /\ pc' = "raised"
                  /\ UNCHANGED <<timeout_count, cm_gate_true>>
  /\ last_call' = NoCall
  /\ UNCHANGED <<cfgVars, frameVars, raceVars, rlrVars, vendorVars, gateVars, ckind, targets,
                 cmachine, is_job_pending, cm_submits, cm_timeout_logged,
                 visits, request_data, policyVars, planVars>>

\* The configuration section whose COMMENT a routine puts in its
\* request_data (lines 694, 764, 834 and 907).
CommentSection(kind) ==
  CASE kind = "isolate" -> "isolate"
    [] kind = "runAntiVirusScan" -> "runAntiVirusScan"
    [] kind = "collectInvestigationPackage" -> "collectInvestigationPackage"
    [] kind = "StopAndQuarantineFile" -> "runAntiVirusScan"

RequestComment(kind) == COMMENT[CommentSection(kind)]

\* is_job_pending after the POST: False on each of the three paths.
PendingAfterSubmit_retry(kind) == kind # "ok"
PendingAfterSubmit_always(kind) == TRUE
PendingAfterSubmit(kind) == FALSE

\* Lines 690-713: the POST and its three outcomes.
CM_Submit_thenreads ==
  /\ pc = "cm_submit"
  /\ \E kind \in ContainmentSubmitKinds, created \in BOOLEAN :
       /\ created \in Created(kind)
       /\ busy' = [busy EXCEPT ![cmachine] = IF created THEN @ + 1 ELSE @]
       /\ is_job_pending' = PendingAfterSubmit(kind)
       /\ request_data' = [Comment |-> RequestComment(ckind)]
       /\ last_call' = [call |-> IF kind = "ok" THEN "read" ELSE "cm_submit",
                        kind |-> kind, e |-> 0]
       /\ cm_failures' = IF plan # 0 /\ kind # "ok"
                            THEN cm_failures \cup {ckind} ELSE cm_failures
  /\ cm_submits' = Bump(cm_submits)
  /\ pc' = "cm_while"
  /\ UNCHANGED <<cfgVars, frameVars, raceVars, rlrVars, vstatus, gateVars, ckind, targets,
                 cmachine, timeout_count, cm_timeout_logged, cm_gate_true,
                 visits, policyVars, plan, sample_verdict, emachines,
                 invocations>>

CM_Submit ==
  /\ pc = "cm_submit"
  /\ \E kind \in ContainmentSubmitKinds, created \in BOOLEAN :
       /\ created \in Created(kind)
       /\ busy' = [busy EXCEPT ![cmachine] = IF created THEN @ + 1 ELSE @]
       /\ is_job_pending' = PendingAfterSubmit(kind)
       /\ request_data' = [Comment |-> RequestComment(ckind)]
       /\ last_call' = [call |-> "cm_submit", kind |-> kind, e |-> 0]
       /\ cm_failures' = IF plan # 0 /\ kind # "ok"
                            THEN cm_failures \cup {ckind} ELSE cm_failures
  /\ cm_submits' = Bump(cm_submits)
  /\ pc' = "cm_while"
  /\ UNCHANGED <<cfgVars, frameVars, raceVars, rlrVars, vstatus, gateVars, ckind, targets,
                 cmachine, timeout_count, cm_timeout_logged, cm_gate_true,
                 visits, policyVars, plan, sample_verdict, emachines,
                 invocations>>

\* The timeout test of line 722.
MachineTimedOut == ~BudgetLeft(MACHINE_TIMEOUT, timeout_count)

\* Lines 721-727 once the loop has ended.
CM_After ==
  /\ pc = "cm_while"
  /\ ~ContainmentLoopTest
  /\ cm_timeout_logged' = MachineTimedOut
  /\ cm_failures' = IF plan # 0 /\ MachineTimedOut
                       THEN cm_failures \cup {ckind} ELSE cm_failures
  /\ pc' = "cm_for"
  /\ last_call' = NoCall
  /\ UNCHANGED <<cfgVars, frameVars, raceVars, rlrVars, vendorVars, gateVars, ckind, targets,
                 cmachine, timeout_count, is_job_pending, cm_submits,
                 cm_gate_true, visits, request_data, policyVars, plan,
                 sample_verdict,
                 emachines, invocations>>

\* ------------------------------------------ run_automated_machine_actions
\* The kinds in the order of the four if statements.
PlanOrder_isolationfirst ==
  <<"isolate", "collectInvestigationPackage", "runAntiVirusScan",
    "StopAndQuarantineFile">>
PlanOrder ==
  <<"collectInvestigationPackage", "runAntiVirusScan",
    "StopAndQuarantineFile", "isolate">>

\* The value of plan once the last if statement is behind.
Returned == Len(PlanOrder) + 1

\* The condition of a kind's if statement.
Eligible_activeonly(kind) == ACTIVE[kind]
Eligible(kind) == ACTIVE[kind] /\ sample_verdict \in VERDICTS[kind]

\* The verdicts a sample can come back with.
SampleVerdicts == Verdicts \cup {"clean"}

\* run_automated_machine_actions(sample_data, evidence) is called.
RAMA_Call ==
  /\ pc = "idle"
  /\ plan' = 1
  /\ sample_verdict' \in SampleVerdicts
  /\ emachines' \in (SUBSET Machines) \ {{}}
  /\ invocations' = NoInvocations
  /\ cm_failures' = {}
  /\ pc' = "rama_if"
  /\ last_call' = NoCall
  /\ UNCHANGED <<cfgVars, frameVars, raceVars, rlrVars, vendorVars, gateVars, policyVars, ckind,
                 targets, cmachine, timeout_count, is_job_pending,
                 cm_submits, cm_timeout_logged, cm_gate_true, visits,
                 request_data>>

\* The if statement in hand: its routine is invoked for evidence, or the
\* next if statement is in hand; after the last one the call returns.
RAMA_If ==
  /\ pc = "rama_if"
  /\ IF plan = Returned
       THEN /\ pc' = "idle"
            /\ UNCHANGED <<plan, invocations, ckind, targets>>
       ELSE IF Eligible(PlanOrder[plan])
              THEN /\ ckind' = PlanOrder[plan]
                   /\ targets' = emachines
                   /\ invocations' =
                        [invocations EXCEPT ![PlanOrder[plan]] = Bump(@)]
                   /\ pc' = "cm_for"
                   /\ UNCHANGED plan
              ELSE /\ plan' = plan + 1
                   /\ UNCHANGED <<pc, invocations, ckind, targets>>
  /\ last_call' = NoCall
  /\ UNCHANGED <<cfgVars, frameVars, raceVars, rlrVars, vendorVars, gateVars, policyVars,
                 cmachine, timeout_count, is_job_pending, cm_submits,
                 cm_timeout_logged, cm_gate_true, visits, request_data,
                 sample_verdict,
                 emachines, cm_failures>>

\* ------------------------------------------------------------ the program
LiveResponseProgram(wf) ==
  \/ RLR_While
  \/ RLR_OuterGate(wf)
  \/ RLR_InnerGate(wf)
  \/ RLR_Submit(wf)
  \/ RLR_Read(wf)
  \/ WLR_Poll(wf)
  \/ WLR_Exit
  \/ RLR_Result(wf)

ContainmentProgram(wf) ==
  \/ CM_For
  \/ CM_Gate(wf)
  \/ CM_Submit
  \/ CM_After

Vendor == VendorJobProgress \/ VendorActionEnds

\* Every response the vendor can send, malformed ones included.
Next ==
  \/ RLR_Call
  \/ CM_Call
  \/ LiveResponseProgram(FALSE)
  \/ ContainmentProgram(FALSE)
  \/ Vendor

Spec == Init /\ [][Next]_vars

\* run_live_response against a vendor whose responses carry every field:
\* transport errors, error responses, job and machine timeouts remain.  The
\* process always takes its next step; the vendor need not.
LiveNext == RLR_Call \/ LiveResponseProgram(TRUE) \/ Vendor

LiveSpec == Init /\ [][LiveNext]_vars /\ WF_vars(LiveResponseProgram(TRUE))

\* run_automated_machine_actions under every policy: each kind enabled or
\* not, its verdict set the malicious verdict alone or both verdicts.
Policies ==
  {[k \in Kinds |-> IF k \in wide THEN Verdicts ELSE {"malicious"}] :
     wide \in {{}, {"collectInvestigationPackage", "runAntiVirusScan"}}}

PlanInit ==
  /\ ConfigInit /\ MachinesInit /\ VendorInit /\ GateIdle /\ RaceIdle /\ FrameIdle
  /\ RoutineIdle /\ PlanIdle
  /\ ACTIVE \in [Kinds -> BOOLEAN]
  /\ VERDICTS \in Policies
  /\ COMMENT = [k \in Kinds |-> "comment A"]
  /\ pc = "idle"
  /\ last_call = NoCall

PlanNext ==
  \/ RAMA_Call
  \/ RAMA_If
  \/ ContainmentProgram(FALSE)
  \/ VendorActionEnds

PlanSpec == PlanInit /\ [][PlanNext]_vars

\* The containment routines under every MACHINE_TIMEOUT and SLEEP, against
\* a vendor whose responses carry every field.  The process always takes
\* its next step.
RoutineInit ==
  /\ JOB_TIMEOUT = 1
  /\ SLEEP \in 1..MaxSleep
  /\ MACHINE_TIMEOUT \in 1..MaxWaitTimeout
  /\ MachinesInit /\ ContainmentInit /\ VendorInit /\ GateIdle /\ RaceIdle /\ FrameIdle
  /\ pc = "idle"
  /\ last_call = NoCall

RoutineNext == CM_Call \/ ContainmentProgram(TRUE) \/ VendorActionEnds

RoutineSpec ==
  RoutineInit /\ [][RoutineNext]_vars /\ WF_vars(ContainmentProgram(TRUE))

\* The routines called directly under every configuration of the comments.
CommentInit ==
  /\ ConfigInit /\ MachinesInit /\ VendorInit /\ GateIdle /\ RaceIdle /\ FrameIdle
  /\ RoutineIdle /\ PlanIdle
  /\ ACTIVE = [k \in Kinds |-> TRUE]
  /\ VERDICTS = [k \in Kinds |-> Verdicts]
  /\ COMMENT \in [Kinds -> Comments]
  /\ pc = "idle"
  /\ last_call = NoCall

CommentSpec == CommentInit /\ [][RoutineNext]_vars

\* run_live_response and the routines with every machine object kept, so
\* that a step on one machine shows what it does to the others.
FrameInit ==
  /\ JOB_TIMEOUT = 1 /\ SLEEP = 1 /\ MACHINE_TIMEOUT = 1
  /\ MachinesInit /\ ContainmentInit /\ VendorInit
  /\ GateIdle /\ RaceIdle
  /\ kept = Machines
  /\ roster = FreshRoster
  /\ pc = "idle"
  /\ last_call = NoCall

\* The lists of these runs: at most one machine has a second evidence.
FrameLists == {l \in [Machines -> EvIdx] : \E m \in Machines : l[m] = 1}

FrameNext ==
  \/ RLR_Call /\ evidences' \in FrameLists
  \/ CM_Call
  \/ LiveResponseProgram(TRUE)
  \/ ContainmentProgram(TRUE)
  \/ Vendor

FrameSpec == FrameInit /\ [][FrameNext]_vars

\* ------------------------------------------------ two processes, one machine
\* Two orchestrator processes run the loop of a containment routine (lines
\* 684-727) for the same machine.  Each has its own locals; they share
\* nothing but the vendor.
\* Line 687: the check as process p makes it, from the listing alone.
RaceGate_flagged(p, resp) ==
  IF \E q \in Procs \ {p} : rpc[q] = "submit"
    THEN "False"
    ELSE is_machine_available(resp)
RaceGate(p, resp) == is_machine_available(resp)

RaceLoopTest(p) == BudgetLeft(MACHINE_TIMEOUT, rcount[p]) /\ rpending[p]

Race_Gate(p) ==
  /\ rpc[p] = "while"
  /\ RaceLoopTest(p)
  /\ \E r \in ListingResponses(RaceMachine, FALSE) :
       LET available == RaceGate(p, r)
       IN  CASE available = "True" ->
                  /\ rpc' = [rpc EXCEPT ![p] = "submit"]
                  /\ rseen' = [rseen EXCEPT ![p] = TRUE]
                  /\ UNCHANGED rcount
             [] available = "False" ->
                  /\ rcount' = [rcount EXCEPT ![p] = @ + 1]
                  /\ UNCHANGED <<rpc, rseen>>
             [] OTHER ->
                  /\ rpc' = [rpc EXCEPT ![p] = "raised"]
                  /\ UNCHANGED <<rcount, rseen>>
  /\ UNCHANGED <<cfgVars, frameVars, pc, rlrVars, cmVars, vendorVars, gateVars, obsVars,
                 rpending, rsent>>

Race_Submit(p) ==
  /\ rpc[p] = "submit"
  /\ \E kind \in ContainmentSubmitKinds, created \in BOOLEAN :
       /\ created \in Created(kind)
       /\ busy' = [busy EXCEPT ![RaceMachine] = IF created THEN @ + 1 ELSE @]
       /\ rpending' = [rpending EXCEPT ![p] = PendingAfterSubmit(kind)]
       /\ rsent' = [rsent EXCEPT ![p] = kind]
  /\ rpc' = [rpc EXCEPT ![p] = "while"]
  /\ UNCHANGED <<cfgVars, frameVars, pc, rlrVars, cmVars, vstatus, gateVars, obsVars,
                 rcount, rseen>>

Race_After(p) ==
  /\ rpc[p] = "while"
  /\ ~RaceLoopTest(p)
  /\ rpc' = [rpc EXCEPT ![p] = "done"]
  /\ UNCHANGED <<cfgVars, frameVars, pc, rlrVars, cmVars, vendorVars, gateVars, obsVars,
                 rcount, rpending, rseen, rsent>>

RaceInit ==
  /\ ConfigInit /\ MachinesInit /\ ContainmentInit /\ VendorInit
  /\ GateIdle /\ FrameIdle
  /\ pc = "race"
  /\ last_call = NoCall
  /\ rpc = [p \in Procs |-> "while"]
  /\ rcount = [p \in Procs |-> 0]
  /\ rpending = [p \in Procs |-> TRUE]
  /\ rseen = [p \in Procs |-> FALSE]
  /\ rsent = [p \in Procs |-> "none"]

RaceNext ==
  \/ \E p \in Procs : Race_Gate(p) \/ Race_Submit(p) \/ Race_After(p)
  \/ VendorActionEnds

RaceSpec == RaceInit /\ [][RaceNext]_vars

\* ------------------------------------------- is_machine_available by itself
\* Every response a listing call can end with.
GateResponses ==
  {[kind |-> k, value |-> <<>>] : k \in ListingFailures(FALSE)}
    \cup {[kind |-> "value", value |-> l] :
            l \in SeqsUpTo(ActionRecords, MaxListLen)}

GateInit ==
  /\ ConfigInit /\ MachinesInit /\ ContainmentInit /\ VendorInit /\ GateIdle /\ RaceIdle /\ FrameIdle
  /\ pc = "gate"
  /\ last_call = NoCall

\* is_machine_available is called and the listing call ends with r.
Gate_Call ==
  /\ pc = "gate"
  /\ \E r \in GateResponses :
       /\ g_kind' = r.kind
       /\ g_listing' = r.value
       /\ g_result' = is_machine_available(r)
  /\ g_prev_kind' = "none" /\ g_prev_listing' = <<>> /\ g_prev_result' = "none"
  /\ UNCHANGED obsVars
  /\ UNCHANGED <<cfgVars, frameVars, raceVars, pc, rlrVars, cmVars, vendorVars>>

\* A busy action of the last listing moves on at the vendor, and
\* is_machine_available is called again.
Gate_Recall ==
  /\ pc = "gate"
  /\ g_kind = "value"
  /\ \E i \in 1..Len(g_listing), s \in {IN_PROGRESS} \cup Terminal :
       /\ HasStatus(g_listing[i])
       /\ g_listing[i].status \in NOT_AVAILABLE
       /\ s # g_listing[i].status
       /\ g_listing' = [g_listing EXCEPT ![i].status = s]
       /\ g_result' = is_machine_available([kind |-> "value",
                                            value |-> g_listing'])
  /\ g_prev_kind' = g_kind
  /\ g_prev_listing' = g_listing
  /\ g_prev_result' = g_result
  /\ UNCHANGED obsVars
  /\ UNCHANGED <<cfgVars, frameVars, raceVars, pc, rlrVars, cmVars, vendorVars, g_kind>>

\* is_machine_available is called again and the listing call ends as it
\* did the time before.
Gate_Repeat ==
  /\ pc = "gate"
  /\ g_result # "none"
  /\ g_result' = is_machine_available([kind |-> g_kind, value |-> g_listing])
  /\ g_prev_kind' = g_kind
  /\ g_prev_listing' = g_listing
  /\ g_prev_result' = g_result
  /\ UNCHANGED obsVars
  /\ UNCHANGED <<cfgVars, frameVars, raceVars, pc, rlrVars, cmVars, vendorVars, g_kind, g_listing>>

GateNext == Gate_Call \/ Gate_Recall \/ Gate_Repeat

GateSpec == GateInit /\ [][GateNext]_vars

\* ------------------------------------------- wait_live_response by itself
\* wait_live_response is entered for a job start() has just set up, under
\* each JOB_TIMEOUT and SLEEP up to the bounds.
WaitInit ==
  /\ JOB_TIMEOUT \in 1..MaxWaitTimeout
  /\ SLEEP \in 1..MaxSleep
  /\ MACHINE_TIMEOUT = 1
  /\ pc = "wlr_while"
  /\ evidences = [m \in Machines |-> 1]
  /\ rlr = "running" /\ mi = 1 /\ ei = 1
  /\ timeout_counter = 0
  /\ live_response =
       [NoJobs EXCEPT ![1] = start(NewLiveResponse, "Created",
                                   FreshId(NewLiveResponse))]
  /\ download_url = NoUrls
  /\ polls = 0
  /\ cancels = NoCounts
  /\ timeout_logged = {}
  /\ submitted = {}
  /\ ContainmentInit /\ GateIdle /\ RaceIdle /\ FrameIdle
  /\ busy = [m \in Machines |-> IF m = 1 THEN 1 ELSE 0]
  /\ vstatus = PENDING
  /\ last_call = NoCall

WaitNext == WLR_Poll(FALSE) \/ WLR_Exit \/ VendorJobProgress

WaitSpec == WaitInit /\ [][WaitNext]_vars

\* ------------------------------------------------------------------ claims
\* C1: at most one action per machine is non-terminal at any time, and a
\* submission is sent only for a machine none of whose actions is
\* non-terminal (the vendor lists a submitted action as busy until it ends).
C1_OneActionPerMachine ==
  /\ \A m \in Machines : busy[m] <= 1
  /\ pc = "rlr_submit" => busy[mi] = 0
  /\ pc = "cm_submit" => busy[cmachine] = 0

\* A containment routine found its machine busy with an earlier action and
\* waited instead of submitting.
C1_Witness ==
  /\ pc = "cm_while"
  /\ busy[cmachine] = 1
  /\ timeout_count > 0
  /\ cm_submits = 0

IsTerminalJob(lr) == lr.has_error \/ lr.is_finished

\* C2: while run_live_response works on a machine, a live-response job that
\* is finished or has failed keeps its status, flags, counter and job id.
C2_TerminalJobNeverChanges ==
  [][(rlr = "running" /\ rlr' = "running" /\ mi' = mi) =>
       \A e \in EvIdx :
         IsTerminalJob(live_response[e]) =>
           live_response'[e] = live_response[e]]_vars

\* C3: a job that ran out of its poll budget is timed out, has failed, and
\* exactly one cancel call was sent for its job id.
C3_TimedOutCancelledOnce ==
  \A e \in EvIdx :
    (/\ JobTimedOut(live_response[e])
     /\ live_response[e].has_error
     /\ live_response[e].status = TIMEOUT) => cancels[e] = 1

\* C4 (amended): one call of wait_live_response on a freshly started job
\* fetches the action record at most ceil(JOB_TIMEOUT / SLEEP) times.
C4_PollsWithinCeiling == polls > 0 => (polls - 1) * SLEEP < JOB_TIMEOUT

\* The loop has ended after more polls than JOB_TIMEOUT / SLEEP rounded down.
C4_Witness ==
  /\ pc = "wlr_while"
  /\ ~WaitLoopTest(live_response[ei])
  /\ polls * SLEEP > JOB_TIMEOUT

\* C4 as stated: one call of wait_live_response on a freshly started job
\* fetches the action record at most floor(JOB_TIMEOUT / SLEEP) times.
C4_PollsWithinFloor == polls <= JOB_TIMEOUT \div SLEEP

\* C5: for each containment routine and machine, when no check of the
\* machine returned True by the end of the loop, no submission was sent and
\* the timeout is reported; the timeout is reported only when no submission
\* was sent.
C5_TimeoutIffNoSubmission ==
  /\ cm_timeout_logged => cm_submits = 0
  /\ cm_submits > 0 => cm_gate_true
  /\ (pc = "cm_for" /\ cmachine # 0 /\ ~cm_gate_true) =>
       (cm_submits = 0 /\ cm_timeout_logged)

\* stop_and_quarantine_file gave up on a machine that stayed unavailable.
C5_Witness ==
  /\ pc = "cm_for"
  /\ cmachine # 0
  /\ ckind = "StopAndQuarantineFile"
  /\ ~cm_gate_true
  /\ cm_timeout_logged
  /\ timeout_count = MACHINE_TIMEOUT

BusyListed(l) ==
  \E i \in 1..Len(l) : HasStatus(l[i]) /\ l[i].status \in NOT_AVAILABLE

AllHaveStatus(l) == \A i \in 1..Len(l) : HasStatus(l[i])

C7_FailClosed == g_kind \in ListingFailures(FALSE) => g_result = "False"

\* The listing response had neither error nor value.
C7_Witness == g_kind = "novalue" /\ g_result = "False"

\* The only busy action of the previous listing was InProgress and is now
\* Succeeded; every other listed action is terminal.
OnlyBusyActionSucceeded ==
  /\ g_prev_kind = "value"
  /\ \E i \in 1..Len(g_prev_listing) :
       /\ AllHaveStatus(g_prev_listing)
       /\ g_prev_listing[i].status = IN_PROGRESS
       /\ \A j \in 1..Len(g_prev_listing) :
            j # i => g_prev_listing[j].status \in Terminal
       /\ g_listing = [g_prev_listing EXCEPT ![i].status = SUCCEEDED]

\* C8: is_machine_available returns True only when the listing succeeded
\* and every listed action is terminal; once the only busy action has gone
\* from InProgress to Succeeded, the next call returns True where the
\* previous one returned False.
C8_TrueOnlyWhenAllTerminal ==
  /\ g_result = "True" =>
       /\ g_kind = "value"
       /\ \A i \in 1..Len(g_listing) :
            HasStatus(g_listing[i]) /\ g_listing[i].status \in Terminal
  /\ OnlyBusyActionSucceeded =>
       (g_prev_result = "False" /\ g_result = "True")

C8_Witness ==
  /\ OnlyBusyActionSucceeded
  /\ Len(g_listing) = 2
  /\ g_prev_result = "False"
  /\ g_result = "True"

\* C9: no exception escapes run_live_response or a containment routine,
\* whatever field a vendor response lacks.
C9_NoExceptionEscapes == pc # "raised"

\* C10: under transport errors, error responses and timeouts, a running
\* run_live_response gets through its machines and returns the list.
C10_RunReturns == (rlr = "running") ~> (rlr = "returned")

\* A call that ended in a transport failure or an error response.
CallFailures == {"exception", "unparsable", "error"}

\* C11: after a submission, action-record read or poll of a live-response
\* job that ended in a transport error or an error response, the job of
\* that evidence has has_error set.
C11_FailedCallMarksJobFailed ==
  (last_call.call \in {"submit", "read", "poll"}
     /\ last_call.kind \in CallFailures) =>
    live_response[last_call.e].has_error

\* C12: after a live-response submission whose response carries an error
\* field, the job is marked failed and the loop has moved on to the next
\* evidence: no action-record read, no poll and no cancel follow for it.
C12_SubmitErrorEndsJob ==
  (last_call.call = "submit" /\ last_call.kind = "error") =>
    /\ live_response[last_call.e].has_error
    /\ pc \in {"rlr_inner", "rlr_while"}
    /\ polls = 0
    /\ vstatus = "None"

\* The submission for the first of two evidences was answered with an error.
C12_Witness ==
  /\ last_call = [call |-> "submit", kind |-> "error", e |-> 1]
  /\ live_response[1].has_error
  /\ pc = "rlr_inner"
  /\ ei = 2

\* C20: a containment submission answered with a vendor error leaves the
\* job pending while the availability budget is not exhausted, so that the
\* loop checks availability and submits again.
C20_FailedSubmissionRetried ==
  (/\ last_call.call = "cm_submit"
   /\ last_call.kind = "error"
   /\ BudgetLeft(MACHINE_TIMEOUT, timeout_count)) => is_job_pending

\* C17: within one machine the first submissions follow the evidence
\* list: an evidence has been submitted only if every evidence before it
\* in the list has been.
C17_SubmissionsInListOrder ==
  \A e \in submitted : \A d \in 1..(e - 1) : d \in submitted

\* C19: run_live_response sends a bounded number of submissions: if
\* submissions are sent again and again without end, it is because
\* run_live_response returns and is called again and again.
C19_BoundedSubmissions ==
  ([]<><<RLR_Submit(TRUE)>>_vars) => ([]<>(rlr = "returned"))

ClaimedOrder ==
  <<"collectInvestigationPackage", "runAntiVirusScan",
    "StopAndQuarantineFile", "isolate">>
ClaimedPos(kind) == CHOOSE i \in 1..Len(ClaimedOrder) : ClaimedOrder[i] = kind

\* The kind is enabled and the sample's verdict is in its verdict set.
PolicySelects(kind) == ACTIVE[kind] /\ sample_verdict \in VERDICTS[kind]

\* A kind's routine is at work inside run_automated_machine_actions.
RoutineAtWork == plan # 0 /\ ckind # "none"

\* C13: the kinds are evaluated in the order package collection, antivirus
\* scan, stop-and-quarantine, isolation: while a kind's routine checks
\* availability or submits, no later kind's routine has been invoked, and
\* the routine of every selected earlier kind has been invoked and is over,
\* so every submission it sends has been sent.
C13_KindsInFixedOrder ==
  RoutineAtWork =>
    \A k \in Kinds :
      /\ ClaimedPos(k) > ClaimedPos(ckind) => invocations[k] = 0
      /\ (ClaimedPos(k) < ClaimedPos(ckind) /\ PolicySelects(k)) =>
           invocations[k] = 1

\* Isolation is about to submit after the three kinds before it have run.
C13_Witness ==
  /\ plan # 0 /\ ckind = "isolate" /\ pc = "cm_submit"
  /\ emachines = Machines /\ cmachine = LastMachine
  /\ \A k \in Kinds : invocations[k] = 1

\* C14: a kind's routine is invoked if and only if the kind is enabled and
\* the sample's verdict is in the kind's verdict set: a routine at work, or
\* invoked earlier in the call, belongs to a selected kind, and once a
\* kind's if statement is behind, its routine has been invoked once if the
\* kind is selected and not at all otherwise.
C14_InvokedIffSelected ==
  plan # 0 =>
    /\ ckind # "none" => (PolicySelects(ckind) /\ invocations[ckind] = 1)
    /\ \A k \in Kinds : invocations[k] > 0 => PolicySelects(k)
    /\ \A k \in Kinds :
         (plan = Returned \/ (ckind # "none" /\ ClaimedPos(k) < ClaimedPos(ckind)))
           => invocations[k] = (IF PolicySelects(k) THEN 1 ELSE 0)

\* The call returned: collection ran on a suspicious sample, the scan was
\* disabled, and isolation, enabled for malicious samples only, did not run.
C14_Witness ==
  /\ plan = Returned /\ pc = "idle"
  /\ sample_verdict = "suspicious"
  /\ invocations["collectInvestigationPackage"] = 1
  /\ ~ACTIVE["runAntiVirusScan"] /\ invocations["runAntiVirusScan"] = 0
  /\ ACTIVE["isolate"] /\ invocations["isolate"] = 0

\* C15: inside run_automated_machine_actions a kind's routine takes each
\* machine of evidence.machines once, sends at most one submission for it,
\* and has sent exactly one when it leaves a machine whose gate returned
\* true within the budget, none when the gate never did.
C15_OneSubmissionPerMachine ==
  RoutineAtWork =>
    /\ \A m \in Machines : visits[m] <= 1
    /\ \A m \in Machines : visits[m] = 1 => m \in emachines
    /\ cm_submits <= 1
    /\ (pc = "cm_for" /\ cmachine # 0) => (cm_gate_true <=> cm_submits = 1)
    /\ (pc = "cm_for" /\ targets = {}) =>
         \A m \in emachines : visits[m] = 1

\* A routine is through both machines of the evidence and has sent the
\* submission of the last one.
C15_Witness ==
  /\ RoutineAtWork /\ pc = "cm_for" /\ targets = {}
  /\ emachines = Machines
  /\ \A m \in Machines : visits[m] = 1
  /\ cmachine = LastMachine /\ cm_gate_true /\ cm_submits = 1

\* C16: once a submission of some kind has failed or a machine has timed
\* out for it, run_automated_machine_actions still goes on to the following
\* kinds and returns; no exception leaves the call.
C16_FailureDoesNotStopThePlan ==
  (plan # 0 /\ cm_failures # {}) => pc # "raised"

\* A step in which an availability check came back negative, in
\* run_live_response before the evidence loop, inside it, and in a
\* containment routine.
OuterCheckNegative == RLR_OuterGate(FALSE) /\ pc' = "rlr_while"
InnerCheckNegative ==
  RLR_InnerGate(FALSE) /\ pc' \in {"rlr_inner", "rlr_while"}
ContainmentCheckNegative == CM_Gate(FALSE) /\ pc' = "cm_while"

\* C21: every negative availability check adds exactly one to the
\* availability counter of its loop: machine.timeout_counter for the check
\* before the evidence loop and for the re-check of each evidence,
\* timeout_count for a containment routine.
C21_NegativeCheckCostsBudget ==
  [][/\ OuterCheckNegative => timeout_counter' = timeout_counter + 1
     /\ InnerCheckNegative => timeout_counter' = timeout_counter + 1
     /\ ContainmentCheckNegative => timeout_count' = timeout_count + 1]_vars

\* C22 (amended): for all positive MACHINE_TIMEOUT and SLEEP a containment
\* routine gives up on a machine after at most ceil(MACHINE_TIMEOUT / SLEEP)
\* negative availability checks, and a routine that was called returns.
C22_GivesUpWithinCeiling ==
  /\ [](timeout_count > 0 => (timeout_count - 1) * SLEEP < MACHINE_TIMEOUT)
  /\ (ckind # "none") ~> (ckind = "none")

\* A routine gave up on a machine after more negative checks than
\* MACHINE_TIMEOUT / SLEEP rounded down.
C22_Witness ==
  /\ pc = "cm_for" /\ cmachine # 0
  /\ cm_timeout_logged /\ ~cm_gate_true
  /\ timeout_count * SLEEP > MACHINE_TIMEOUT

\* C22 as stated: a containment routine gives up on a machine after at most
\* floor(MACHINE_TIMEOUT / SLEEP) negative availability checks.
C22_GivesUpWithinFloor == timeout_count <= MACHINE_TIMEOUT \div SLEEP

\* The step sends a submission request: a runliveresponse POST ("submit")
\* or the POST of a containment routine ("cm_submit").
SubmissionSent(call) == last_call'.call = call /\ last_call' # last_call

\* C23: a submission is sent only from the position reached by an
\* availability check of the same machine that returned True, and that
\* position is left by the submission: run_live_response reaches it only
\* through the re-check made for the evidence in hand, a containment
\* routine only through the check of its loop, and nothing is submitted
\* for the machine between the check and the submission.
C23_SubmissionFollowsTrueCheck ==
  [][/\ SubmissionSent("submit") => (pc = "rlr_submit" /\ pc' # "rlr_submit")
     /\ SubmissionSent("cm_submit") =>
          (pc = "cm_submit" /\ pc' # "cm_submit")
     /\ pc' = "rlr_submit" =>
          \/ RLR_InnerGate(FALSE) /\ mi' = mi /\ ei' = ei
          \/ pc = "rlr_submit" /\ UNCHANGED <<mi, ei, last_call>>
     /\ pc' = "cm_submit" =>
          \/ CM_Gate(FALSE) /\ cmachine' = cmachine
          \/ pc = "cm_submit" /\ UNCHANGED <<cmachine, last_call>>]_vars

\* The second evidence of a machine has just been submitted after the
\* first one was.
C23_Witness ==
  /\ last_call.call = "submit" /\ last_call.kind = "ok" /\ last_call.e = 2
  /\ 1 \in submitted
  /\ pc = "rlr_read"

\* run_live_response is on a machine whose availability counter has
\* reached MACHINE_TIMEOUT / SLEEP.
BudgetExhausted ==
  rlr = "running" /\ MACHINE_TIMEOUT <= timeout_counter * SLEEP

\* C24: while run_live_response stays on a machine, the machine's one
\* availability counter never goes down, whichever evidence is in hand;
\* once it has reached the budget the process is at the while test with an
\* evidence still pending, and its next step reports the timeout and goes
\* to the next machine or returns: no check and no submission in between.
C24_SharedBudgetEndsMachine ==
  [][/\ (rlr = "running" /\ rlr' = "running" /\ mi' = mi) =>
          timeout_counter' >= timeout_counter
     /\ BudgetExhausted =>
          /\ pc = "rlr_while" /\ has_pending_actions(mi)
          /\ \/ UNCHANGED <<pc, rlrVars, last_call>>
             \/ /\ mi \in timeout_logged'
                /\ last_call' = NoCall /\ UNCHANGED busy
                /\ \/ mi' = mi + 1 /\ pc' = "rlr_while" /\ rlr' = "running"
                   \/ mi = LastMachine /\ pc' = "idle" /\ rlr' = "returned"]_vars

\* The budget of a machine with two evidences ran out after the first
\* evidence was submitted and finished; the second is still pending.
C24_Witness ==
  /\ BudgetExhausted /\ pc = "rlr_while"
  /\ evidences[mi] = 2
  /\ 1 \in submitted /\ live_response[1].is_finished
  /\ 2 \notin submitted

\* The latest step was a poll for which get_machine_action returned None.
PollFailed == last_call.call = "poll" /\ last_call.kind \in CallFailures

\* C25: after a poll that returned no record the job is marked failed and
\* the wait loop's test is false; the process's next step leaves
\* wait_live_response without another poll, without a cancel request and
\* without touching the job.
C25_FailedPollEndsWait ==
  [][PollFailed =>
       /\ pc = "wlr_while"
       /\ live_response[ei].has_error
       /\ ~WaitLoopTest(live_response[ei])
       /\ \/ UNCHANGED <<pc, rlrVars, last_call>>
          \/ /\ pc' \in {"rlr_inner", "rlr_while"}
             /\ last_call' = NoCall
             /\ UNCHANGED <<live_response, cancels>>]_vars

\* The second poll of a job hit a transport exception.
C25_Witness ==
  /\ last_call = [call |-> "poll", kind |-> "exception", e |-> 1]
  /\ polls = 2
  /\ live_response[1].timeout_counter = 1
  /\ live_response[1].has_error

\* The step sends a cancel request.
CancelSent == last_call'.call = "cancel" /\ last_call' # last_call

\* C26: the step that cancels a timed-out job leaves the job with status
\* TIMEOUT and has_error set and goes on to the next evidence, whether the
\* cancel request succeeded, was refused or hit a transport exception; it
\* changes nothing else of the machine in hand, and the step after it sends
\* no cancel request.
C26_CancelIsBestEffort ==
  [][/\ CancelSent =>
          /\ JobTimedOut(live_response[ei])
          /\ live_response' =
               [live_response EXCEPT ![ei] =
                  [@ EXCEPT !.has_error = TRUE, !.status = TIMEOUT]]
          /\ pc' \in {"rlr_inner", "rlr_while"}
          /\ UNCHANGED <<evidences, rlr, mi, timeout_counter, download_url,
                         timeout_logged, submitted, busy>>
     /\ last_call.call = "cancel" =>
          /\ live_response[last_call.e].status = TIMEOUT
          /\ live_response[last_call.e].has_error
          /\ ~CancelSent]_vars

\* The cancel request of a timed-out job was refused by the vendor.
C26_Witness ==
  /\ last_call = [call |-> "cancel", kind |-> "error", e |-> 1]
  /\ live_response[1].status = TIMEOUT
  /\ live_response[1].has_error
  /\ live_response[1].timeout_counter = JOB_TIMEOUT

\* C27: a cancel request is sent only from wait_live_response, for a job
\* that is not finished and whose counter has reached the poll budget; the
\* first cancel request for a job id follows polls of that job, the latest
\* of which returned its record with a non-terminal status.  No containment
\* routine is at work when a cancel request is sent.
C27_OnlyTimeoutCancels ==
  [][CancelSent =>
       /\ pc = "wlr_while" /\ ckind = "none"
       /\ JobTimedOut(live_response[ei])
       /\ ~live_response[ei].is_finished
       /\ cancels[ei] = 0 =>
            /\ polls > 0
            /\ last_call = [call |-> "poll", kind |-> "record", e |-> ei]]_vars

\* C28: a containment routine leaves a machine after a successful
\* submission only once the submitted action has reached a terminal state
\* at the vendor.
C28_WaitsForTerminalState ==
  [][(CM_After /\ last_call = [call |-> "cm_submit", kind |-> "ok", e |-> 0])
       => busy[cmachine] = 0]_vars

\* The step reads an individual action record after a submission, or polls
\* one.
ReadSent == last_call'.call = "read" /\ last_call' # last_call
PollSent == last_call'.call = "poll" /\ last_call' # last_call

\* C29: run_live_response reads the submitted action's record right after
\* a successful submission and only then; the first poll of a job follows
\* that one read with nothing in between; while a containment routine is at
\* work no action record is read or polled.
C29_ExtraReadOnlyForLiveResponse ==
  [][/\ ReadSent =>
          /\ pc = "rlr_read"
          /\ last_call = [call |-> "submit", kind |-> "ok", e |-> ei]
     /\ (pc = "rlr_read" /\ pc' # "rlr_read") => ReadSent
     /\ (PollSent /\ polls = 0) =>
          last_call = [call |-> "read", kind |-> "record", e |-> ei]
     /\ ckind # "none" => last_call.call \in {"none", "cm_submit"}
     /\ ckind' # "none" => last_call'.call \in {"none", "cm_submit"}]_vars

\* The first poll of a job has been made, after the read that followed its
\* submission.
C29_Witness ==
  /\ last_call = [call |-> "poll", kind |-> "record", e |-> 1]
  /\ polls = 1
  /\ live_response[1].id # 0
  /\ 1 \in submitted

\* C30: nothing local stands between a process and its submission.  A
\* process submits only after its own check returned True; whatever the
\* other process has done, its check can return True while the vendor
\* lists no busy action for the machine, and once it has, its submission
\* can be sent.
C30_NothingLocalPreventsRace ==
  \A p \in Procs :
    /\ rsent[p] # "none" => rseen[p]
    /\ (rpc[p] = "while" /\ RaceLoopTest(p) /\ busy[RaceMachine] = 0) =>
         ENABLED (Race_Gate(p) /\ rpc'[p] = "submit")
    /\ rpc[p] = "submit" => ENABLED Race_Submit(p)

\* Both processes saw the machine available and both submissions were
\* accepted: two actions are pending on it.
C30_Witness ==
  /\ \A p \in Procs : rseen[p] /\ rsent[p] = "ok"
  /\ busy[RaceMachine] = 2

\* C32: run_live_response sends a runliveresponse request for an evidence
\* only if it has sent none for that evidence of the machine before, and
\* only while the evidence's job has neither finished nor failed.
LiveSubmissionSent == last_call'.call = "submit" /\ last_call' # last_call
C32_OneSubmissionPerEvidence ==
  [][LiveSubmissionSent =>
       /\ last_call'.e \notin submitted
       /\ ~live_response[last_call'.e].is_finished
       /\ ~live_response[last_call'.e].has_error]_vars

\* C33: while run_live_response runs, no evidence's job has both
\* is_finished and has_error set, and no job with status TIMEOUT is
\* is_finished.
C33_SuccessExcludesFailure ==
  rlr = "running" =>
    \A e \in 1..evidences[mi] :
      /\ ~(live_response[e].is_finished /\ live_response[e].has_error)
      /\ live_response[e].status = TIMEOUT => ~live_response[e].is_finished

\* C34: the download-link request is sent only for a started job that a
\* poll of the current wait found SUCCEEDED and that has not failed, and
\* an evidence holds a download URL only while its job is SUCCEEDED and
\* has not failed.
C34_UrlOnlyAfterObservedSuccess ==
  rlr = "running" =>
    /\ pc = "rlr_result" =>
         /\ live_response[ei].id # 0
         /\ live_response[ei].status = SUCCEEDED
         /\ ~live_response[ei].has_error
         /\ polls > 0
    /\ \A e \in 1..evidences[mi] :
         download_url[e] # "None" =>
           /\ live_response[e].status = SUCCEEDED
           /\ ~live_response[e].has_error

\* C35: the Comment of a containment request is the comment configured
\* for the kind of the routine that sends it.
C35_CommentOfOwnKind ==
  request_data # NoRequest => request_data.Comment = COMMENT[ckind]

\* C31: a step of run_live_response on the machine in hand leaves the
\* counter and the jobs of every other machine as they were; the step to
\* the next machine leaves behind the machine it had exactly as it was and
\* takes up the next one with that machine's own counter and jobs; a step
\* of a containment routine changes no machine object, and a routine
\* starts each machine with a counter of zero.
ObjectInHand ==
  [timeout_counter |-> timeout_counter, live_response |-> live_response]
OthersUntouched == \A m \in Machines \ {mi} : roster'[m] = roster[m]
C31_MachinesAreIndependent ==
  [][/\ (rlr = "running" /\ rlr' = "running" /\ mi' = mi) => OthersUntouched
     /\ (rlr = "running" /\ mi' # mi) =>
          /\ OthersUntouched
          /\ roster'[mi] = ObjectInHand
          /\ timeout_counter' = roster[mi'].timeout_counter
          /\ live_response' = roster[mi'].live_response
     /\ (ckind # "none" /\ ckind' # "none") =>
          /\ roster' = roster
          /\ UNCHANGED <<timeout_counter, live_response>>
     /\ (ckind # "none" /\ cmachine' # cmachine /\ cmachine' # 0) =>
          timeout_count' = 0]_vars

\* The first machine was left with a finished job and its budget used up,
\* and the second machine's job has finished on a budget of its own.
C31_Witness ==
  /\ rlr = "running" /\ mi = LastMachine
  /\ roster[1].timeout_counter * SLEEP >= MACHINE_TIMEOUT
  /\ roster[1].live_response[1].is_finished
  /\ timeout_counter = 0
  /\ live_response[1].is_finished
====
